---- MODULE Spec2Model ----
(***************************************************************************)
(* State-machine model of streamlit_app.py: one Streamlit session that     *)
(* uploads an OpenAPI document, starts / stops the Node mock server as a   *)
(* child process, probes it and tails its log file.                        *)
(*                                                                         *)
(* Streamlit re-executes the whole script, top to bottom, on every widget  *)
(* event.  One action of the model is therefore one complete script run    *)
(* (lines 147-233) triggered by one event.  A button can be clicked only  *)
(* if the previous run rendered it enabled: the `disabled=` argument of    *)
(* lines 167 and 184 is evaluated when the button is rendered, i.e. BEFORE *)
(* the handler body of the same run changes st.session_state.server_proc,  *)
(* and st.button returns the click the browser sent whatever `disabled`    *)
(* the current run passes.  start_disabled / stop_disabled hold what the   *)
(* browser shows.                                                          *)
(***************************************************************************)
EXTENDS Integers, Sequences, FiniteSets, TLC

VARIABLES
    server_proc,     \* st.session_state.server_proc: None or the pid of a Popen
    spec_path,       \* st.session_state.spec_path: None or a temp file
    uploaded,        \* value of the st.file_uploader widget: None or a file
    alive,           \* pids of child processes that have not exited
    nextPid,         \* next pid subprocess.Popen hands out
    nextFile,        \* next name tempfile.NamedTemporaryFile hands out
    log_size,        \* size in bytes of the file at log_path, NoFile if absent
    appends,         \* writes made to the current log file by child processes
    logger,          \* pid whose stdout is the file at log_path, or None
    pc,              \* position of the script thread: idle, or inside npm ci
    start_disabled,  \* Start Server button as last rendered
    stop_disabled,   \* Stop Server button as last rendered
    status,          \* "Process:" line as last rendered
    logs,            \* number of bytes tail_file returned to the last render
    msgs,            \* st.success / st.error messages of the last run
    sig,             \* the signals the last script run (or atexit) sent
    life             \* active: session open; closed: session ended, server
                     \* process still up; down: the Python process has exited

vars == <<server_proc, spec_path, uploaded, alive, nextPid, nextFile, log_size,
          appends, logger, pc, start_disabled, stop_disabled, status, logs,
          msgs, sig, life>>

\* Python's None as a process handle; pids start at 1
None == 0
\* os.path.getsize of a file that does not exist
NoFile == -1
\* Python's None as st.session_state.spec_path and as the uploader's value
NoPath == [id |-> 0, suffix |-> << >>]
NoUpload == [name |-> << >>, type |-> ""]

(* ----------------------------- bounds --------------------------------- *)
MaxProcs == 2
MaxFiles == 2
MaxAppends == 1

(* ------------------------- program constants -------------------------- *)
max_bytes == 16000
wait_timeout == 5
InstallMsgLen == 58

Pids == 1..MaxProcs

(* --------------------------- file names -------------------------------- *)
DotYaml == <<".", "y", "a", "m", "l">>
DotYml == <<".", "y", "m", "l">>
DotJson == <<".", "j", "s", "o", "n">>

\* st.file_uploader(type=["yaml", "yml", "json"])
UploaderTypes == {DotYaml, DotYml, DotJson}

\* file names the uploader accepts: a stem followed by an accepted extension
Stems == {<<"s">>}
UploadNames == {stem \o ext : stem \in Stems, ext \in UploaderTypes}

MimeTypes == {"application/json", "application/x-yaml", "application/octet-stream"}

UploadedFiles == [name : UploadNames, type : MimeTypes]

Last(S) == CHOOSE i \in S : \A j \in S : j <= i

\* pathlib.PurePath.suffix: from the last dot of the name, unless that dot is
\* the first or the last character
suffix(name) ==
    LET dots == {i \in 1..Len(name) : name[i] = "."}
    IN  IF dots = {} THEN << >>
        ELSE IF Last(dots) > 1 /\ Last(dots) < Len(name)
             THEN SubSeq(name, Last(dots), Len(name))
             ELSE << >>

\* mutant: the extension is taken from the declared MIME type only
write_uploaded_file_by_mime(up, n) ==
    [id |-> n, suffix |-> IF up.type = "application/json" THEN DotJson ELSE DotYaml]

\* write_uploaded_file: a new temp file whose suffix is the upload's, or .yaml
write_uploaded_file(up, n) ==
    [id |-> n, suffix |-> IF suffix(up.name) = << >> THEN DotYaml ELSE suffix(up.name)]

(* --------------------------- stop_server ------------------------------- *)
\* A child is taken out of the live set by the signal that ends it: SIGTERM
\* when it honours it within the wait, SIGKILL (which it cannot ignore)
\* otherwise.
\* How a live child answers SIGTERM: it exits after resp time units; a resp of
\* wait_timeout stands for a child still running when proc.wait times out.
Responses == 0..wait_timeout

NoSignal(al) ==
    [alive |-> al, term |-> FALSE, kill |-> FALSE, waited |-> 0, raised |-> FALSE]

\* mutant: no poll() before terminate()
stop_server_no_poll(proc, al, resp) ==
    IF proc = None THEN NoSignal(al)
    ELSE [alive |-> al \ {proc}, term |-> TRUE, kill |-> resp >= wait_timeout,
          waited |-> resp, raised |-> FALSE]

\* mutant: the forced kill after the timeout is missing
stop_server_no_kill(proc, al, resp) ==
    IF proc = None \/ proc \notin al THEN NoSignal(al)
    ELSE [alive |-> IF resp < wait_timeout THEN al \ {proc} ELSE al,
          term |-> TRUE, kill |-> FALSE,
          waited |-> resp, raised |-> FALSE]

stop_server(proc, al, resp) ==
    IF proc = None THEN NoSignal(al)                     \* if not proc: return
    ELSE IF proc \notin al THEN NoSignal(al)             \* poll() is not None
    ELSE IF resp < wait_timeout
         THEN \* terminate(); wait(timeout=5) returns
              [alive |-> al \ {proc}, term |-> TRUE, kill |-> FALSE,
               waited |-> resp, raised |-> FALSE]
         ELSE \* terminate(); wait raises TimeoutExpired; kill()
              [alive |-> al \ {proc}, term |-> TRUE, kill |-> TRUE,
               waited |-> wait_timeout, raised |-> FALSE]

(* ---------------------------- tail_file -------------------------------- *)
\* atMeasure: the size os.path.getsize returned; atSeek: the size when
\* f.seek(-max_bytes, SEEK_END) ran; atRead: the size when f.read() ran.
\* The result is the number of bytes returned.

tail_file(atMeasure, atSeek, atRead) ==
    IF atMeasure = NoFile THEN 0                          \* except: return ""
    ELSE IF atMeasure > max_bytes THEN atRead - (atSeek - max_bytes)
    ELSE atRead

\* what a child may write in one go
Chunks == {1, max_bytes}

\* bytes the process writing to the log may add at one point of a run
Growth(sz, ap, lg, al) ==
    IF sz # NoFile /\ lg # None /\ lg \in al /\ ap < MaxAppends
    THEN {0} \cup Chunks ELSE {0}

Bump(ap, d) == IF d = 0 THEN ap ELSE ap + 1

\* the answers that make a difference to stop_server(proc, al, _)
RespFor(proc, al) == IF proc # None /\ proc \in al THEN Responses ELSE {0}

SigOf(r) ==
    [term |-> r.term, kill |-> r.kill, waited |-> r.waited]

(* ------------------------------- Init ---------------------------------- *)
\* The state after the first script run of a new session (lines 147-152):
\* nothing tracked, nothing uploaded, Start enabled, Stop disabled.
Init ==
    /\ server_proc = None
    /\ spec_path = NoPath
    /\ uploaded = NoUpload
    /\ alive = {}
    /\ nextPid = 1
    /\ nextFile = 1
    /\ log_size = NoFile
    /\ appends = 0
    /\ logger = None
    /\ pc = "idle"
    /\ start_disabled = FALSE
    /\ stop_disabled = TRUE
    /\ status = "stopped"
    /\ logs = 0
    /\ msgs = {}
    /\ sig = SigOf(NoSignal({}))
    /\ life = "active"

(* ----------------------- pieces of one script run ---------------------- *)
\* the script thread is free to serve a widget event
Active == life = "active" /\ pc = "idle"

\* lines 163-165: every run in which the uploader holds a file writes it again
CanWrite(up) == up = NoUpload \/ nextFile <= MaxFiles
NewPath(up) == IF up = NoUpload THEN spec_path ELSE write_uploaded_file(up, nextFile)
NewNextFile(up) == IF up = NoUpload THEN nextFile ELSE nextFile + 1
UploadMsgs(up) == IF up = NoUpload THEN {} ELSE {"Uploaded to temporary file"}

UploadStep(up) ==
    /\ CanWrite(up)
    /\ uploaded' = up
    /\ spec_path' = NewPath(up)
    /\ nextFile' = NewNextFile(up)

\* mutant: the status line looks at the handle only, not at poll()
StatusLine_no_poll(proc, al) == IF proc # None THEN "running" ELSE "stopped"

\* line 198
StatusLine(proc, al) == IF proc # None /\ proc \in al THEN "running" ELSE "stopped"

\* lines 167, 184, 198: atStart / atStop are server_proc when the Start / Stop
\* button is rendered, proc and al the handle and the live children at line 198
Render(atStart, atStop, proc, al) ==
    /\ start_disabled' = (atStart # None)
    /\ stop_disabled' = (atStop = None)
    /\ status' = StatusLine(proc, al)

\* line 222: tail_file(log_path), the logging child writing while it runs
TailStep(sz, ap, lg, al) ==
    \E d1 \in Growth(sz, ap, lg, al) :
        \E d2 \in Growth(sz, Bump(ap, d1), lg, al) :
            /\ logs' = tail_file(sz, sz + d1, sz + d1 + d2)
            /\ log_size' = sz + d1 + d2
            /\ appends' = Bump(Bump(ap, d1), d2)

\* a run in which neither Start Server nor Stop Server was clicked
PlainRun(up, m) ==
    /\ Active
    /\ UploadStep(up)
    /\ Render(server_proc, server_proc, server_proc, alive)
    /\ msgs' = UploadMsgs(up) \cup m
    /\ TailStep(log_size, appends, logger, alive)
    /\ sig' = SigOf(NoSignal(alive))
    /\ UNCHANGED <<server_proc, alive, nextPid, logger, pc, life>>

(* ------------------------------ events --------------------------------- *)
\* the user picks a file in the uploader
Upload(f) == PlainRun(f, {})

\* the user removes the file from the uploader
ClearUpload == uploaded # NoUpload /\ PlainRun(NoUpload, {})

\* any other rerun, such as the one a changed Host or Port field triggers
Rerender == PlainRun(uploaded, {})

HttpOutcomes == {"ok", "http_error", "conn_error"}

\* lines 201-208
CheckHealth(o) ==
    PlainRun(uploaded,
             {IF o = "ok" THEN "Healthy" ELSE "Health check failed"})

\* lines 210-218
ListEndpoints(o) ==
    PlainRun(uploaded,
             {IF o = "ok" THEN "Found endpoints" ELSE "Failed to fetch endpoints"})

\* lines 184-190: the Stop Server button was clicked.  The button is rendered
\* (line 184) before the handler body nulls the handle.
ClickStop(resp) ==
    /\ Active
    /\ resp \in RespFor(server_proc, alive)
    /\ ~stop_disabled
    /\ UploadStep(uploaded)
    /\ LET r == stop_server(server_proc, alive, resp)
       IN  /\ server_proc' = IF r.raised THEN server_proc ELSE None
           /\ alive' = r.alive
           /\ sig' = SigOf(r)
           /\ msgs' = UploadMsgs(uploaded) \cup
                        {IF r.raised THEN "Failed to stop server" ELSE "Server stopped"}
           /\ Render(server_proc, server_proc,
                     IF r.raised THEN server_proc ELSE None, r.alive)
           /\ TailStep(log_size, appends, logger, r.alive)
    /\ UNCHANGED <<nextPid, logger, pc, life>>

\* what start_server finds on the machine: the launch script, a node
\* executable, node_modules/axios and node_modules/express, an npm executable
Envs == [script : BOOLEAN, node : BOOLEAN, deps : BOOLEAN, npm : BOOLEAN]

\* mutant: start_server does not call ensure_node_available
StartOutcome_no_node_check(sp, env) ==
    IF sp = NoPath THEN "no_spec"
    ELSE IF ~env.script THEN "no_script"
    ELSE IF env.deps THEN "spawn"
    ELSE IF ~env.npm THEN "no_npm"
    ELSE "npm"

\* lines 168-177 and 84-89, 53-60: how far the Start handler gets
StartOutcome(sp, env) ==
    IF sp = NoPath THEN "no_spec"                       \* line 168
    ELSE IF ~env.script THEN "no_script"                \* line 85
    ELSE IF ~env.node THEN "no_node"                    \* line 88
    ELSE IF env.deps THEN "spawn"                       \* line 57
    ELSE IF ~env.npm THEN "no_npm"                      \* line 60
    ELSE "npm"                                          \* line 63

StartMsg(out) ==
    CASE out = "no_spec" -> "Please upload a YAML/JSON spec first."
      [] out = "no_script" -> "Failed to start server: Missing script"
      [] out = "no_node" -> "Failed to start server: Node.js not found"
      [] out = "no_npm" -> "Failed to start server: npm not found"
      [] out = "npm_failed" -> "Failed to start server: npm ci failed"
      [] out = "spawn" -> "Server started"

\* lines 167-182: the Start Server button was clicked.  early: the child exits
\* during time.sleep(0.3).
ClickStart(env, early) ==
    /\ Active
    /\ ~start_disabled
    /\ UploadStep(uploaded)
    /\ LET out == StartOutcome(NewPath(uploaded), env)
           \* lines 173-176, 61-62, 92: the log file after the handler
           sz == CASE out = "no_spec" -> log_size
                   [] out = "spawn" -> 0
                   [] out = "npm" -> InstallMsgLen
                   [] OTHER -> NoFile
           ap == IF out = "no_spec" THEN appends ELSE 0
           lg == CASE out = "no_spec" -> logger
                   [] out = "spawn" -> nextPid
                   [] OTHER -> None
           proc == IF out = "spawn" THEN nextPid ELSE server_proc
           al == IF out = "spawn" /\ ~early THEN alive \cup {nextPid} ELSE alive
       IN  /\ out \in {"spawn", "npm"} => nextPid <= MaxProcs
           /\ out # "spawn" => ~early
           /\ server_proc' = proc
           /\ alive' = al
           /\ nextPid' = IF out = "spawn" THEN nextPid + 1 ELSE nextPid
           /\ logger' = lg
           /\ IF out = "npm"
              THEN \* blocked in subprocess.run (line 63)
                   /\ pc' = "npm"
                   /\ start_disabled' = (server_proc # None)
                   /\ log_size' = sz
                   /\ appends' = ap
                   /\ UNCHANGED <<stop_disabled, status, logs, msgs>>
              ELSE /\ pc' = "idle"
                   /\ Render(server_proc, proc, proc, al)
                   /\ msgs' = UploadMsgs(uploaded) \cup {StartMsg(out)}
                   /\ TailStep(sz, ap, lg, al)
    /\ sig' = SigOf(NoSignal(alive))
    /\ UNCHANGED life

\* the npm ci process exits with return code rc, having written d bytes
NpmExit(rc, d) ==
    /\ life = "active"
    /\ pc = "npm"
    /\ d \in (IF appends < MaxAppends THEN {0} \cup Chunks ELSE {0})
    /\ pc' = IF rc = 0 THEN "npm_ok" ELSE "npm_failed"
    /\ log_size' = log_size + d
    /\ appends' = Bump(appends, d)
    /\ UNCHANGED <<server_proc, spec_path, uploaded, alive, nextPid, nextFile,
                   logger, start_disabled, stop_disabled, status, logs, msgs,
                   sig, life>>

\* lines 71-72, 92-109, 178-182 and the rest of the run: subprocess.run has
\* returned and the Start handler goes on
StartResume(early) ==
    /\ life = "active"
    /\ pc \in {"npm_ok", "npm_failed"}
    /\ LET ok == pc = "npm_ok"
           proc == IF ok THEN nextPid ELSE server_proc
           al == IF ok /\ ~early THEN alive \cup {nextPid} ELSE alive
           lg == IF ok THEN nextPid ELSE None
       IN  /\ ~ok => ~early
           /\ server_proc' = proc
           /\ alive' = al
           /\ nextPid' = IF ok THEN nextPid + 1 ELSE nextPid
           /\ logger' = lg
           /\ stop_disabled' = (proc = None)
           /\ status' = StatusLine(proc, al)
           /\ msgs' = UploadMsgs(uploaded) \cup
                        {StartMsg(IF ok THEN "spawn" ELSE "npm_failed")}
           /\ TailStep(log_size, appends, lg, al)
    /\ pc' = "idle"
    /\ UNCHANGED <<spec_path, uploaded, nextFile, start_disabled, sig, life>>

\* a child process exits by itself
ChildExit(p) ==
    /\ p \in alive
    /\ alive' = alive \ {p}
    /\ UNCHANGED <<server_proc, spec_path, uploaded, nextPid, nextFile, log_size,
                   appends, logger, pc, start_disabled, stop_disabled, status,
                   logs, msgs, sig, life>>

\* the child whose stdout is the log file writes c bytes between two runs
ChildWrite(c) ==
    /\ life = "active"
    /\ c \in Growth(log_size, appends, logger, alive) \ {0}
    /\ log_size' = log_size + c
    /\ appends' = appends + 1
    /\ UNCHANGED <<server_proc, spec_path, uploaded, alive, nextPid, nextFile,
                   logger, pc, start_disabled, stop_disabled, status, logs, msgs,
                   sig, life>>

\* the browser tab is closed or reloaded: the session and its session_state
\* are dropped, the page is gone and no button can be clicked any more.  No
\* line of the script runs.  server_proc keeps the handle the session tracked
\* when it ended.
PageGone ==
    /\ spec_path' = NoPath
    /\ uploaded' = NoUpload
    /\ start_disabled' = TRUE
    /\ stop_disabled' = TRUE
    /\ status' = "stopped"
    /\ logs' = 0
    /\ msgs' = {}

SessionEnd ==
    /\ Active
    /\ life' = "closed"
    /\ PageGone
    /\ UNCHANGED <<server_proc, alive, nextPid, nextFile, log_size, appends,
                   logger, pc, sig>>

\* what st.session_state.get("server_proc") gives _cleanup, which runs at
\* interpreter exit outside any script run
CleanupHandles == IF life = "active" THEN {None, server_proc} ELSE {None}

\* lines 229-233: the Python process exits normally and atexit runs _cleanup
AtExit(h, resp) ==
    /\ life # "down"
    /\ pc = "idle"
    /\ h \in CleanupHandles
    /\ resp \in RespFor(h, alive)
    /\ LET r == stop_server(h, alive, resp)
       IN  /\ alive' = r.alive
           /\ sig' = SigOf(r)
    /\ life' = "down"
    /\ PageGone
    /\ UNCHANGED <<server_proc, nextPid, nextFile, log_size, appends, logger, pc>>

\* the Python process is killed: no atexit handler runs
Crash ==
    /\ life # "down"
    /\ pc = "idle"
    /\ life' = "down"
    /\ PageGone
    /\ UNCHANGED <<server_proc, alive, nextPid, nextFile, log_size, appends,
                   logger, pc, sig>>

Next ==
    \/ \E f \in UploadedFiles : Upload(f)
    \/ ClearUpload
    \/ Rerender
    \/ \E o \in HttpOutcomes : CheckHealth(o)
    \/ \E o \in HttpOutcomes : ListEndpoints(o)
    \/ \E env \in Envs, early \in BOOLEAN : ClickStart(env, early)
    \/ \E resp \in Responses : ClickStop(resp)
    \/ \E rc \in {0, 1}, d \in {0} \cup Chunks : NpmExit(rc, d)
    \/ \E early \in BOOLEAN : StartResume(early)
    \/ \E p \in Pids : ChildExit(p)
    \/ \E c \in Chunks : ChildWrite(c)
    \/ SessionEnd
    \/ \E h \in Pids \cup {None}, resp \in Responses : AtExit(h, resp)
    \/ Crash

Spec == Init /\ [][Next]_vars

\* Once subprocess.run has returned, the script thread goes on by itself.
\* Nothing makes the user click, a child exit, or npm ci return.
FairSpec == Spec /\ WF_vars(\E early \in BOOLEAN : StartResume(early))

(* ================================ claims =============================== *)
StartStep == \E env \in Envs, early \in BOOLEAN : ClickStart(env, early)
StopStep == \E resp \in Responses : ClickStop(resp)
HealthStep == \E o \in HttpOutcomes : CheckHealth(o)
EndpointsStep == \E o \in HttpOutcomes : ListEndpoints(o)
ResumeStep == \E early \in BOOLEAN : StartResume(early)

\* a step that ends a script run, so that the page shows what the run rendered
RunEnds ==
    \/ \E f \in UploadedFiles : Upload(f)
    \/ ClearUpload
    \/ Rerender
    \/ HealthStep
    \/ EndpointsStep
    \/ StartStep /\ pc' = "idle"
    \/ StopStep
    \/ ResumeStep

StartFailureMsgs ==
    {StartMsg(o) : o \in {"no_spec", "no_script", "no_node", "no_npm", "npm_failed"}}

\* C1: at most one child process launched by the session is alive.
AtMostOneChild == Cardinality(alive) <= 1

\* C2: a Stop on a null handle, on a handle whose process has exited, or right
\* after another Stop raises nothing, signals nothing and leaves no handle
\* tracked; every Stop ends with the handle null and "Server stopped" shown.
StopIdempotent ==
    [][StopStep =>
        /\ server_proc' = None
        /\ "Server stopped" \in msgs'
        /\ "Failed to stop server" \notin msgs'
        /\ (server_proc = None \/ server_proc \notin alive) =>
              (~sig'.term /\ ~sig'.kill /\ alive' = alive)]_vars

\* C2 witness: a second Stop in succession has run on the null handle (the Stop
\* button of this run was rendered with no handle) and sent no signal.
StopOnNullHandleDone ==
    /\ "Server stopped" \in msgs
    /\ stop_disabled
    /\ server_proc = None
    /\ ~sig.term

\* C3: a Start that fails (no spec uploaded, launch script absent, Node not
\* found, npm not found, npm ci failing) reports the error, spawns nothing,
\* leaves the tracked handle as it was (null stays null) and is not retried:
\* the script thread is idle again with the same process counter.
FailedStartChangesNothing ==
    [][(\/ \E env \in Envs :
            /\ ClickStart(env, FALSE)
            /\ \/ NewPath(uploaded) = NoPath
               \/ ~env.script
               \/ ~env.node
               \/ ~env.deps /\ ~env.npm
        \/ pc = "npm_failed" /\ StartResume(FALSE))
       =>
        /\ msgs' \cap StartFailureMsgs # {}
        /\ "Server started" \notin msgs'
        /\ nextPid' = nextPid
        /\ alive' = alive
        /\ server_proc' = server_proc
        /\ (server_proc = None => status' = "stopped")
        /\ pc' = "idle"]_vars

\* C3 witness: Node was not found on a Start from NoProcess; the error is on
\* the page and nothing was ever spawned.
FailedStartShown ==
    /\ "Failed to start server: Node.js not found" \in msgs
    /\ server_proc = None
    /\ nextPid = 1
    /\ alive = {}

\* C4: a Stop on a live child sends the graceful signal and waits at most
\* wait_timeout; it sends the forced kill exactly when the child has ignored
\* the signal for the whole window; either way the handle is null and the
\* child is gone when the handler returns.
StopEscalates ==
    [][\A resp \in Responses :
        (ClickStop(resp) /\ server_proc \in alive) =>
            /\ sig'.term
            /\ sig'.kill = (resp = wait_timeout)
            /\ sig'.waited = resp
            /\ sig'.waited <= wait_timeout
            /\ server_proc' = None
            /\ server_proc \notin alive']_vars

\* C4 witness: a Stop has force-killed a child after the full grace window.
ForcedKillDone ==
    /\ sig.kill
    /\ sig.waited = wait_timeout
    /\ "Server stopped" \in msgs
    /\ server_proc = None

\* C5: once the session's Python process has gone, on whatever path, the child
\* the session tracked is no longer running.
TeardownTerminatesChild == life = "down" => server_proc \notin alive

\* C6: tail_file never hands the page more than max_bytes bytes.
TailWithinBudget == logs <= max_bytes

\* the reference rule of C7: JSON MIME type -> .json, YAML MIME type -> .yaml,
\* otherwise the extension of the declared file name
ReferenceExt(type, name) ==
    CASE type = "application/json" -> DotJson
      [] type = "application/x-yaml" -> DotYaml
      [] OTHER -> suffix(name)

EndsWith(n, e) ==
    Len(e) <= Len(n) /\ SubSeq(n, Len(n) - Len(e) + 1, Len(n)) = e

DotCount(n) == Cardinality({i \in 1..Len(n) : n[i] = "."})

StartAlwaysReturns == (pc # "idle") ~> (pc = "idle")

\* C9: the session leaves Running (an open session tracking a handle) only by
\* a Stop or by teardown, and every run renders "running" exactly when the
\* handle is non-null and its process has not exited.
Running == life = "active" /\ server_proc # None

OnlyStopLeavesRunning ==
    [][/\ (Running /\ ~Running') => (StopStep \/ SessionEnd \/ life' = "down")
       /\ RunEnds =>
            (status' = "running") = (server_proc' # None /\ server_proc' \in alive')]_vars

\* C9 witness: the tracked child has exited by itself; the session still
\* tracks its handle (Stop is offered) and the page says "stopped".
ExitedChildStillTracked ==
    /\ Running
    /\ server_proc \notin alive
    /\ status = "stopped"
    /\ ~stop_disabled

\* C10: Check Health and List Endpoints leave the handle, the live children
\* and the stored spec path as they were, and end with a message on the page.
HealthCheckChangesNothing ==
    [][(HealthStep \/ EndpointsStep) =>
        /\ server_proc' = server_proc
        /\ alive' = alive
        /\ spec_path' = spec_path
        /\ msgs' \cap {"Healthy", "Health check failed", "Found endpoints",
                        "Failed to fetch endpoints"} # {}]_vars
====
